---- MODULE Spec2Model ----
(***************************************************************************)
(* Model of the filesystem MCP server (filesystem_write-mcp.py): the       *)
(* virtual-path sandbox (set_allowed_dirs, validate_virtual_path) and the  *)
(* segment patch engine (_apply_simplified_patch, apply_diff).             *)
(*                                                                         *)
(* Python strings are sequences of one-character strings, so that          *)
(* str.startswith, str.strip, str.split and the os.path functions are      *)
(* computed character by character as the library computes them.          *)
(***************************************************************************)
EXTENDS Integers, Sequences, FiniteSets, TLC

VARIABLES fs, started, _allowed_real_dirs, _virtual_to_real, _real_to_virtual,
          vres, call

vars == <<fs, started, _allowed_real_dirs, _virtual_to_real, _real_to_virtual,
          vres, call>>

\* ------------------------------------------------------------------------
\* Bounds
\* ------------------------------------------------------------------------
\* longest list of directories given on the command line
MaxDirs == 2

\* ------------------------------------------------------------------------
\* Strings
\* ------------------------------------------------------------------------
Sep == "/"

StartsWith(s, p) == Len(p) <= Len(s) /\ SubSeq(s, 1, Len(p)) = p

EndsWith(s, p) == Len(p) <= Len(s) /\ SubSeq(s, Len(s) - Len(p) + 1, Len(s)) = p

\* s[n:] for 0 <= n
DropFirst(s, n) == SubSeq(s, n + 1, Len(s))

\* index of the first occurrence of character ch in s, 0 when there is none
FindChar(s, ch) ==
    IF \E i \in 1..Len(s) : s[i] = ch
    THEN CHOOSE i \in 1..Len(s) : s[i] = ch /\ \A j \in 1..(i - 1) : s[j] # ch
    ELSE 0

\* index of the last occurrence of character ch in s, 0 when there is none
RFindChar(s, ch) ==
    IF \E i \in 1..Len(s) : s[i] = ch
    THEN CHOOSE i \in 1..Len(s) : s[i] = ch /\ \A j \in (i + 1)..Len(s) : s[j] # ch
    ELSE 0

\* str.split(ch): the pieces between occurrences of ch, empty pieces kept
RECURSIVE SplitOn(_, _)
SplitOn(s, ch) ==
    LET i == FindChar(s, ch)
    IN  IF i = 0 THEN <<s>>
        ELSE <<SubSeq(s, 1, i - 1)>> \o SplitOn(DropFirst(s, i), ch)

\* ch.join(parts)
RECURSIVE JoinWith(_, _)
JoinWith(parts, ch) ==
    IF Len(parts) = 0 THEN <<>>
    ELSE IF Len(parts) = 1 THEN parts[1]
    ELSE parts[1] \o <<ch>> \o JoinWith(Tail(parts), ch)

\* str.lstrip("/")
RECURSIVE LStripSep(_)
LStripSep(s) == IF Len(s) > 0 /\ s[1] = Sep THEN LStripSep(Tail(s)) ELSE s

\* str.rstrip("/")
RECURSIVE RStripSep(_)
RStripSep(s) ==
    IF Len(s) > 0 /\ s[Len(s)] = Sep THEN RStripSep(SubSeq(s, 1, Len(s) - 1)) ELSE s

\* ------------------------------------------------------------------------
\* os.path (posixpath)
\* ------------------------------------------------------------------------
Root == <<"/">>
CurDir == <<".">>
ParDir == <<".", ".">>

\* working directory of the server process
Cwd == Root

IsAbs(p) == StartsWith(p, <<Sep>>)

\* os.path.join(a, b)
PathJoin(a, b) ==
    IF IsAbs(b) THEN b
    ELSE IF a = <<>> \/ EndsWith(a, <<Sep>>) THEN a \o b
    ELSE a \o <<Sep>> \o b

\* the component stack of normpath after the components comps were read
RECURSIVE NormComps(_, _, _)
NormComps(comps, new_comps, initial_slashes) ==
    IF Len(comps) = 0 THEN new_comps
    ELSE LET comp == Head(comps)
             n == Len(new_comps)
         IN  IF comp = <<>> \/ comp = CurDir
             THEN NormComps(Tail(comps), new_comps, initial_slashes)
             ELSE IF \/ comp # ParDir
                     \/ (initial_slashes = 0 /\ n = 0)
                     \/ (n > 0 /\ new_comps[n] = ParDir)
             THEN NormComps(Tail(comps), Append(new_comps, comp), initial_slashes)
             ELSE IF n > 0
             THEN NormComps(Tail(comps), SubSeq(new_comps, 1, n - 1), initial_slashes)
             ELSE NormComps(Tail(comps), new_comps, initial_slashes)

\* os.path.normpath
Normpath(path) ==
    IF path = <<>> THEN CurDir
    ELSE LET initial_slashes ==
                 IF ~IsAbs(path) THEN 0
                 ELSE IF StartsWith(path, <<Sep, Sep>>) /\ ~StartsWith(path, <<Sep, Sep, Sep>>)
                      THEN 2 ELSE 1
             joined == JoinWith(NormComps(SplitOn(path, Sep), <<>>, initial_slashes), Sep)
             out == IF initial_slashes = 2 THEN <<Sep, Sep>> \o joined
                    ELSE IF initial_slashes = 1 THEN <<Sep>> \o joined
                    ELSE joined
         IN  IF out = <<>> THEN CurDir ELSE out

\* os.path.abspath
Abspath(path) == Normpath(IF IsAbs(path) THEN path ELSE PathJoin(Cwd, path))

\* home directory of the user running the server
Home == Root

\* os.path.expanduser, for the forms "~" and "~/..."
ExpandUser(path) ==
    IF StartsWith(path, <<"~">>) /\ (Len(path) = 1 \/ path[2] = Sep)
    THEN LET h == RStripSep(Home) IN
         IF h \o DropFirst(path, 1) = <<>> THEN Root ELSE h \o DropFirst(path, 1)
    ELSE path

\* os.path.dirname
Dirname(p) ==
    LET i == RFindChar(p, Sep)
        head == SubSeq(p, 1, i)
    IN  IF head # <<>> /\ \E k \in 1..Len(head) : head[k] # Sep
        THEN RStripSep(head) ELSE head

\* ------------------------------------------------------------------------
\* The filesystem: fs maps each existing path to its node
\* ------------------------------------------------------------------------
NoNode == [type |-> "none", target |-> <<>>, data |-> <<>>]
DirNode == [type |-> "dir", target |-> <<>>, data |-> <<>>]
FileNode(d) == [type |-> "file", target |-> <<>>, data |-> d]
LinkNode(t) == [type |-> "link", target |-> t, data |-> <<>>]

\* os.lstat: the node at p itself, symlinks not followed
Lstat(p) == IF p \in DOMAIN fs THEN fs[p] ELSE NoNode

\* posixpath._joinrealpath with strict=False: [path, ok]
RECURSIVE JoinRealpath(_, _, _)
RECURSIVE WalkRealpath(_, _, _)
JoinRealpath(path, rest, seen) ==
    IF IsAbs(rest) THEN WalkRealpath(Root, Tail(rest), seen)
    ELSE WalkRealpath(path, rest, seen)

WalkRealpath(path, rest, seen) ==
    IF rest = <<>> THEN [path |-> path, ok |-> TRUE]
    ELSE LET i == FindChar(rest, Sep)
             name == IF i = 0 THEN rest ELSE SubSeq(rest, 1, i - 1)
             rest2 == IF i = 0 THEN <<>> ELSE DropFirst(rest, i)
         IN  IF name = <<>> \/ name = CurDir THEN WalkRealpath(path, rest2, seen)
             ELSE IF name = ParDir
             THEN WalkRealpath(IF path = <<>> THEN ParDir
                               ELSE LET d == Dirname(path)
                                        b == DropFirst(path, RFindChar(path, Sep))
                                    IN  IF b = ParDir
                                        THEN PathJoin(PathJoin(d, ParDir), ParDir)
                                        ELSE d,
                               rest2, seen)
             ELSE LET newpath == PathJoin(path, name)
                  IN  IF Lstat(newpath).type # "link"
                      THEN WalkRealpath(newpath, rest2, seen)
                      ELSE IF newpath \in seen
                      THEN [path |-> PathJoin(newpath, rest2), ok |-> FALSE]
                      ELSE LET r == JoinRealpath(path, Lstat(newpath).target,
                                                 seen \cup {newpath})
                           IN  IF ~r.ok
                               THEN [path |-> PathJoin(r.path, rest2), ok |-> FALSE]
                               ELSE WalkRealpath(r.path, rest2, seen)

\* os.path.realpath(p), called without strict: every OSError of lstat is
\* swallowed, a missing component and what follows it are kept as written
Realpath(p) == Abspath(JoinRealpath(<<>>, p, {}).path)

\* whether os.path.realpath(p) raises FileNotFoundError: never (strict=False)
RealpathRaises(p) == FALSE

\* os.path.exists: os.stat follows symlinks
Exists(p) == Lstat(Realpath(p)).type \in {"dir", "file"}

\* os.path.isdir
IsDir(p) == Lstat(Realpath(p)).type = "dir"

\* ------------------------------------------------------------------------
\* Python dict: insertion-ordered sequence of <<key, value>> items
\* ------------------------------------------------------------------------
DictHas(d, k) == \E i \in 1..Len(d) : d[i][1] = k

DictGet(d, k) == d[CHOOSE i \in 1..Len(d) : d[i][1] = k][2]

\* d[k] = v: an existing key keeps its position and takes the new value
DictSet(d, k, v) ==
    IF DictHas(d, k)
    THEN [i \in 1..Len(d) |-> IF d[i][1] = k THEN <<k, v>> ELSE d[i]]
    ELSE Append(d, <<k, v>>)

\* dict(items): the items inserted in order
RECURSIVE DictFromItems(_, _)
DictFromItems(items, d) ==
    IF Len(items) = 0 THEN d
    ELSE DictFromItems(Tail(items), DictSet(d, Head(items)[1], Head(items)[2]))

\* ------------------------------------------------------------------------
\* DirectoryRegistry: set_allowed_dirs
\* ------------------------------------------------------------------------
LowerCase == <<"a", "b", "c", "d", "e", "f", "g", "h", "i", "j", "k", "l", "m",
               "n", "o", "p", "q", "r", "s", "t", "u", "v", "w", "x", "y", "z">>

\* chr(n) for the codes of the lower-case letters
Chr(n) == LowerCase[n - 96]

DataPrefix == <<"/", "d", "a", "t", "a", "/">>

\* f"/data/{chr(97 + i)}" for the i-th directory, i counted from 0
VirtualDir(i) == DataPrefix \o <<Chr(97 + i)>>

AllowedRealDirsOf(real_dirs) ==
    [i \in 1..Len(real_dirs) |-> Abspath(ExpandUser(real_dirs[i]))]

VirtualToRealOf(allowed) ==
    DictFromItems([i \in 1..Len(allowed) |-> <<VirtualDir(i - 1), allowed[i]>>], <<>>)

RealToVirtualOf(v2r) ==
    DictFromItems([i \in 1..Len(v2r) |-> <<v2r[i][2], v2r[i][1]>>], <<>>)

\* ------------------------------------------------------------------------
\* PathResolver: validate_virtual_path
\* ------------------------------------------------------------------------
\* virtual_path.startswith(virtual_dir + "/") or virtual_path == virtual_dir
AliasMatches(virtual_path, virtual_dir) ==
    StartsWith(virtual_path, virtual_dir \o <<Sep>>) \/ virtual_path = virtual_dir

\* CandidateOf with the leading separators of the relative part left in place
CandidateOf_NoLstrip(virtual_path, virtual_dir, real_dir) ==
    LET relative == DropFirst(virtual_path, Len(virtual_dir))
    IN  IF relative # <<>> THEN PathJoin(real_dir, relative) ELSE real_dir

\* the real path joined from the matched item, before normalisation
CandidateOf(virtual_path, virtual_dir, real_dir) ==
    LET relative == LStripSep(DropFirst(virtual_path, Len(virtual_dir)))
    IN  IF relative # <<>> THEN PathJoin(real_dir, relative) ELSE real_dir

\* WithinAllowed comparing against d instead of d + os.sep
WithinAllowed_NoSep(p) ==
    \E i \in 1..Len(_allowed_real_dirs) :
        StartsWith(p, _allowed_real_dirs[i]) \/ p = _allowed_real_dirs[i]

\* any(p.startswith(d + os.sep) or p == d for d in _allowed_real_dirs)
WithinAllowed(p) ==
    \E i \in 1..Len(_allowed_real_dirs) :
        StartsWith(p, _allowed_real_dirs[i] \o <<Sep>>) \/ p = _allowed_real_dirs[i]

Returned(p) == [kind |-> "ok", path |-> p]
Raised(e) == [kind |-> e, path |-> <<>>]

\* index of the first item of _virtual_to_real that matches, 0 when none does
MatchedItem(virtual_path) ==
    LET m == {i \in 1..Len(_virtual_to_real) :
                  AliasMatches(virtual_path, _virtual_to_real[i][1])}
    IN  IF m = {} THEN 0 ELSE CHOOSE i \in m : \A j \in m : i <= j

\* the normalised syntactic real path of a virtual path that matches item k
RealPathOf(virtual_path, k) ==
    Normpath(Abspath(CandidateOf(virtual_path, _virtual_to_real[k][1],
                                 _virtual_to_real[k][2])))

ValidateVirtualPath(virtual_path) ==
    LET k == MatchedItem(virtual_path)
    IN  IF k = 0 THEN Raised("CustomFileSystemError")
        ELSE LET real_path == RealPathOf(virtual_path, k)
             IN  IF ~RealpathRaises(real_path)
                 THEN LET resolved_real_path == Realpath(real_path)
                      IN  IF WithinAllowed(resolved_real_path)
                          THEN Returned(resolved_real_path)
                          ELSE Raised("PermissionError")
                 ELSE LET real_parent == Realpath(Dirname(real_path))
                      IN  IF ~Exists(real_parent) THEN Raised("FileNotFoundError")
                          ELSE IF WithinAllowed(real_parent) THEN Returned(real_path)
                          ELSE Raised("PermissionError")

\* ------------------------------------------------------------------------
\* Text helpers of the patch engine
\* ------------------------------------------------------------------------
NL == "\n"
CR == "\r"

WhiteSpace == {" ", NL, CR, "\t"}

\* str.strip()
RECURSIVE LStrip(_)
LStrip(s) == IF Len(s) > 0 /\ s[1] \in WhiteSpace THEN LStrip(Tail(s)) ELSE s

RECURSIVE RStrip(_)
RStrip(s) ==
    IF Len(s) > 0 /\ s[Len(s)] \in WhiteSpace THEN RStrip(SubSeq(s, 1, Len(s) - 1)) ELSE s

Strip(s) == RStrip(LStrip(s))

\* text-mode read (newline=None): "\r\n" and "\r" become "\n"
RECURSIVE UniversalNewlines(_)
UniversalNewlines(s) ==
    IF Len(s) = 0 THEN <<>>
    ELSE IF s[1] = CR
    THEN <<NL>> \o UniversalNewlines(IF Len(s) > 1 /\ s[2] = NL
                                     THEN DropFirst(s, 2) ELSE DropFirst(s, 1))
    ELSE <<s[1]>> \o UniversalNewlines(Tail(s))

\* index of the first line terminator character of s, 0 when there is none
FirstBreak(s) ==
    IF \E i \in 1..Len(s) : s[i] \in {NL, CR}
    THEN CHOOSE i \in 1..Len(s) :
             s[i] \in {NL, CR} /\ \A j \in 1..(i - 1) : s[j] \notin {NL, CR}
    ELSE 0

\* str.splitlines(): lines without their terminators ("\n", "\r", "\r\n"),
\* no empty last line after a final terminator
RECURSIVE SplitLines(_)
SplitLines(s) ==
    IF Len(s) = 0 THEN <<>>
    ELSE LET i == FirstBreak(s)
         IN  IF i = 0 THEN <<s>>
             ELSE LET skip == IF s[i] = CR /\ i < Len(s) /\ s[i + 1] = NL
                              THEN i + 1 ELSE i
                  IN  <<SubSeq(s, 1, i - 1)>> \o SplitLines(DropFirst(s, skip))

Digits == <<"0", "1", "2", "3", "4", "5", "6", "7", "8", "9">>

IsDigit(ch) == \E d \in 1..10 : Digits[d] = ch

DigitVal(ch) == (CHOOSE d \in 1..10 : Digits[d] = ch) - 1

\* int() of a string of decimal digits
RECURSIVE IntOf(_, _)
IntOf(s, acc) == IF Len(s) = 0 THEN acc ELSE IntOf(Tail(s), 10 * acc + DigitVal(s[1]))

\* the longest run of digits at the start of s
RECURSIVE DigitRun(_)
DigitRun(s) ==
    IF Len(s) > 0 /\ IsDigit(s[1]) THEN <<s[1]>> \o DigitRun(Tail(s)) ELSE <<>>

None == -1

HintText == <<"l", "i", "n", "e", " ", ">", "=", " ">>

\* re.search(r'line >= (\d+)', header): int of group 1 of the leftmost
\* match, None without a match
StartLineGte(header) ==
    LET at == {i \in 1..Len(header) :
                  /\ StartsWith(DropFirst(header, i - 1), HintText)
                  /\ DigitRun(DropFirst(header, i - 1 + Len(HintText))) # <<>>}
    IN  IF at = {} THEN None
        ELSE LET i == CHOOSE i \in at : \A j \in at : i <= j
             IN  IntOf(DigitRun(DropFirst(header, i - 1 + Len(HintText))), 0)

\* s[a:b] of a Python list, indices 0-based and clamped to the length
PySlice(s, a, b) ==
    LET lo == IF a > Len(s) THEN Len(s) ELSE a
        hi == IF b > Len(s) THEN Len(s) ELSE b
    IN  SubSeq(s, lo + 1, hi)

\* ------------------------------------------------------------------------
\* PatchEngine: _apply_simplified_patch, parsing
\* ------------------------------------------------------------------------
HeaderMark == <<"-", "-", "-">>

\* diff.strip().split('\n')
DiffLines(diff) == SplitOn(Strip(diff), NL)

\* [i for i, line in enumerate(diff_lines) if line.startswith('---')], 1-based
SegmentStartIndices(diff_lines) ==
    SelectSeq([i \in 1..Len(diff_lines) |-> i],
              LAMBDA i : StartsWith(diff_lines[i], HeaderMark))

\* the from_lines of a segment body
RECURSIVE FromLines(_)
FromLines(content) ==
    IF Len(content) = 0 THEN <<>>
    ELSE LET line == Head(content)
         IN  (IF StartsWith(line, <<"-">>) THEN <<Tail(line)>>
              ELSE IF StartsWith(line, <<"+">>) THEN <<>>
              ELSE <<line>>) \o FromLines(Tail(content))

\* ToLines that takes the added lines only and leaves out the context lines
ToLines_NoContext(content) ==
    LET added == SelectSeq(content, LAMBDA line : StartsWith(line, <<"+">>))
    IN  [n \in 1..Len(added) |-> Tail(added[n])]

\* the to_lines of a segment body
RECURSIVE ToLines(_)
ToLines(content) ==
    IF Len(content) = 0 THEN <<>>
    ELSE LET line == Head(content)
         IN  (IF StartsWith(line, <<"-">>) THEN <<>>
              ELSE IF StartsWith(line, <<"+">>) THEN <<Tail(line)>>
              ELSE <<line>>) \o ToLines(Tail(content))

\* the segments of the patch, one per header line
Segments(diff_lines) ==
    LET starts == SegmentStartIndices(diff_lines)
    IN  [i \in 1..Len(starts) |->
            LET start_index == starts[i]
                end_index == IF i = Len(starts) THEN Len(diff_lines) + 1 ELSE starts[i + 1]
                header == diff_lines[start_index]
                content == SubSeq(diff_lines, start_index + 1, end_index - 1)
            IN  [start_line_gte |-> StartLineGte(header),
                 from_lines |-> FromLines(content),
                 to_lines |-> ToLines(content)]]

\* ------------------------------------------------------------------------
\* PatchEngine: _apply_simplified_patch, one turn of the apply loop
\* ------------------------------------------------------------------------
\* HintTaken with > in place of >=
HintTaken_Strict(segment, current_search_start_line) ==
    segment.start_line_gte # None
    /\ segment.start_line_gte > current_search_start_line + 1

\* whether the hint of the segment is used as the search start
HintTaken(segment, current_search_start_line) ==
    segment.start_line_gte # None
    /\ segment.start_line_gte >= current_search_start_line + 1

\* whether the hint of the segment is ignored with a warning (the else branch)
HintIgnored(segment, current_search_start_line) ==
    segment.start_line_gte # None
    /\ ~HintTaken(segment, current_search_start_line)

\* SearchFrom that follows every hint, also one before the cursor
SearchFrom_AnyHint(segment, current_search_start_line) ==
    IF segment.start_line_gte # None /\ segment.start_line_gte >= 1
    THEN segment.start_line_gte - 1
    ELSE current_search_start_line

SearchFrom(segment, current_search_start_line) ==
    IF HintTaken(segment, current_search_start_line)
    THEN segment.start_line_gte - 1
    ELSE current_search_start_line

\* the index the segment is applied at, -1 when its from_lines are not found
FoundAt(new_lines, segment, search_from) ==
    IF segment.from_lines = <<>> THEN search_from
    ELSE LET n == Len(segment.from_lines)
             hits == {line_idx \in search_from..(Len(new_lines) - n) :
                         PySlice(new_lines, line_idx, line_idx + n) = segment.from_lines}
         IN  IF hits = {} THEN -1
             ELSE CHOOSE line_idx \in hits : \A other \in hits : line_idx <= other

\* new_lines[found_at : found_at + len(from_lines)] = to_lines
Replaced(new_lines, segment, found_at) ==
    PySlice(new_lines, 0, found_at) \o segment.to_lines
    \o PySlice(new_lines, found_at + Len(segment.from_lines), Len(new_lines))

\* NextSearchStart that steps over the replaced lines, not the inserted ones
NextSearchStart_FromLen(segment, found_at) == found_at + Len(segment.from_lines)

\* current_search_start_line after the segment was applied at found_at
NextSearchStart(segment, found_at) == found_at + Len(segment.to_lines)

\* ------------------------------------------------------------------------
\* Paths, layouts and inputs of the bounded model
\* ------------------------------------------------------------------------
P_f == <<"/", "f">>
P_fb == <<"/", "f", "b">>
P_o == <<"/", "o">>
P_l == <<"/", "l">>
P_f_s == <<"/", "f", "/", "s">>
P_f_n == <<"/", "f", "/", "n">>
P_o_n == <<"/", "o", "/", "n">>

\* /f and /fb are directories whose names share a string prefix, /o is a
\* directory that is never registered, /l is a symlink to /f
BaseLayout ==
    (Root :> DirNode) @@ (P_f :> DirNode) @@ (P_fb :> DirNode) @@ (P_o :> DirNode)
    @@ (P_l :> LinkNode(P_f))

\* what /f/s can be: absent, a directory, a symlink out of the sandbox, a
\* symlink to the sibling directory, a symlink loop, a symlink to /o/n
SNodes == {NoNode, DirNode, LinkNode(P_o), LinkNode(P_fb), LinkNode(P_f_s),
           LinkNode(P_o_n)}

\* what /f/n can be
NNodes == {NoNode, FileNode(<<>>)}

\* what /o/n can be: absent, a file, a symlink back to /f/n
ONodes == {NoNode, FileNode(<<>>), LinkNode(P_f_n)}

Entry(p, node) == IF node = NoNode THEN (Root :> DirNode) ELSE (p :> node)

LayoutOf(s, n, o) == Entry(P_f_s, s) @@ Entry(P_f_n, n) @@ Entry(P_o_n, o) @@ BaseLayout

\* command-line spellings of the directories to allow
DirArgs == {P_f, P_fb, P_l, <<"/", "f", "/">>}

RECURSIVE SeqsUpTo(_, _)
SeqsUpTo(S, n) ==
    IF n = 0 THEN {<<>>}
    ELSE LET shorter == SeqsUpTo(S, n - 1)
         IN  shorter \cup {Append(q, x) : q \in shorter, x \in S}

DirLists == {q \in SeqsUpTo(DirArgs, MaxDirs) : Len(q) >= 1}

\* what follows the alias in the virtual paths that are resolved
VSuffixes == {<<>>, <<"/", "n">>, <<"/", "s">>, <<"/", "s", "/", "n">>,
              <<"/", ".", ".", "/", "f", "b", "/", "n">>,
              <<"/", ".", ".", "/", "o", "/", "n">>,
              <<"/", "f", "b">>, <<"b">>}

VPaths == {VirtualDir(i) \o x : i \in 0..1, x \in VSuffixes}

\* ------------------------------------------------------------------------
\* State machine of the sandbox
\* ------------------------------------------------------------------------
NoResult == [vp |-> <<>>, kind |-> "none", path |-> <<>>]

NoCalls == <<>>

InitRegistry ==
    /\ started = FALSE
    /\ _allowed_real_dirs = <<>>
    /\ _virtual_to_real = <<>>
    /\ _real_to_virtual = <<>>
    /\ vres = NoResult

InitPath ==
    /\ \E s \in SNodes, n \in NNodes, o \in ONodes : fs = LayoutOf(s, n, o)
    /\ InitRegistry
    /\ call = NoCalls

\* the module body run at start: every argument must be a directory, then
\* set_allowed_dirs(real_dirs)
Startup(real_dirs) ==
    /\ ~started
    /\ \A i \in 1..Len(real_dirs) : IsDir(real_dirs[i])
    /\ started' = TRUE
    /\ _allowed_real_dirs' = AllowedRealDirsOf(real_dirs)
    /\ _virtual_to_real' = VirtualToRealOf(AllowedRealDirsOf(real_dirs))
    /\ _real_to_virtual' = RealToVirtualOf(VirtualToRealOf(AllowedRealDirsOf(real_dirs)))
    /\ UNCHANGED <<fs, vres, call>>

\* one call of validate_virtual_path, its outcome kept in vres
Resolve(virtual_path) ==
    /\ started
    /\ vres' = [vp |-> virtual_path,
                kind |-> ValidateVirtualPath(virtual_path).kind,
                path |-> ValidateVirtualPath(virtual_path).path]
    /\ UNCHANGED <<fs, started, _allowed_real_dirs, _virtual_to_real,
                   _real_to_virtual, call>>

NextPath ==
    \/ /\ ~started
       /\ \E real_dirs \in DirLists : Startup(real_dirs)
    \/ \E virtual_path \in VPaths : Resolve(virtual_path)

SpecPath == InitPath /\ [][NextPath]_vars

\* ------------------------------------------------------------------------
\* ToolSurface: get_error_message and apply_diff
\* ------------------------------------------------------------------------
\* an exception: its class, the fixed part of its message, the path or the
\* segment number the message is formatted with
Exc(cls, text, path, num) == [cls |-> cls, text |-> text, path |-> path, num |-> num]

\* a string returned to the caller: fixed parts, the path formatted into the
\* message and the warning lines that follow
Message(head, detail, path, warnings) ==
    [head |-> head, detail |-> detail, path |-> path, warnings |-> warnings]

NoMessage == Message("", "", <<>>, <<>>)

UnknownPath == <<"U", "n", "k", "n", "o", "w", "n", " ", "p", "a", "t", "h">>

\* get_error_message(message, virtual_path, e)
GetErrorMessage(message, virtual_path, e) ==
    LET vp == IF virtual_path = <<>> THEN UnknownPath ELSE virtual_path
    IN  IF e.cls = "FileNotFoundError"
        THEN Message(message, ": No such file or directory: ", vp, <<>>)
        ELSE IF e.cls = "PermissionError"
        THEN Message(message, ": Permission denied: ", vp, <<>>)
        ELSE IF e.cls = "IsADirectoryError"
        THEN Message(message, ": Is a directory: ", vp, <<>>)
        ELSE IF e.cls = "NotADirectoryError"
        THEN Message(message, ": Not a directory: ", vp, <<>>)
        ELSE IF e.cls = "FileExistsError"
        THEN Message(message, ": File already exists: ", vp, <<>>)
        ELSE IF e.cls = "CustomFileSystemError"
        THEN Message(message, e.text, e.path, <<>>)
        ELSE IF e.cls = "ValueError"
        THEN Message(message, ": Invalid value: ", vp, <<>>)
        ELSE Message(message, ": ", vp, <<>>)

\* the exception validate_virtual_path raised, from its outcome
ValidateError(virtual_path, v) ==
    IF v.kind = "CustomFileSystemError"
    THEN Exc(v.kind, ": Not a valid path (List allowed directories for valid paths): ",
             virtual_path, 0)
    ELSE IF v.kind = "PermissionError" THEN Exc(v.kind, "Access denied", <<>>, 0)
    ELSE Exc(v.kind, "Parent directory not found", <<>>, 0)

\* the exception of open(real_path, "r"), "none" when the file opens
OpenError(real_path) ==
    LET t == Lstat(Realpath(real_path)).type
    IN  IF t = "file" THEN "none"
        ELSE IF t = "dir" THEN "IsADirectoryError"
        ELSE IF t = "none" THEN "FileNotFoundError"
        ELSE "OSError"

\* f.read() of the file opened in text mode
ReadText(real_path) == UniversalNewlines(Lstat(Realpath(real_path)).data)

\* the warning appended for segment number n (counted from 1) with hint N
Warning(n, N) == [segment |-> n, line |-> N]

\* the handlers of apply_diff that may run at the same time
Callers == {1, 2}

IdleCall ==
    [pc |-> "idle", path |-> <<>>, diff |-> <<>>, dry_run |-> FALSE,
     real_path |-> <<>>, original_content |-> <<>>, segments |-> <<>>, i |-> 0,
     new_lines |-> <<>>, current_search_start_line |-> 0, warnings |-> <<>>,
     search_from |-> 0, found_at |-> 0, new_content |-> <<>>, result |-> NoMessage]

\* a call that returned the message m
Finished(k, m) == [k EXCEPT !.pc = "done", !.result = m]

\* apply_diff up to the apply loop: validate the path, read the file, parse
\* the patch
ApplyDiffBegin(c, path, diff, dry_run) ==
    /\ started
    /\ call[c].pc = "idle"
    /\ LET k == [call[c] EXCEPT !.path = path, !.diff = diff, !.dry_run = dry_run]
           v == ValidateVirtualPath(path)
           diff_lines == DiffLines(diff)
       IN  call' = [call EXCEPT ![c] =
               IF v.kind # "ok"
               THEN Finished(k, GetErrorMessage("Error applying diff", path,
                                                ValidateError(path, v)))
               ELSE IF OpenError(v.path) # "none"
               THEN Finished([k EXCEPT !.real_path = v.path],
                             GetErrorMessage("Error applying diff", path,
                                             Exc(OpenError(v.path), "", <<>>, 0)))
               ELSE IF Len(SegmentStartIndices(diff_lines)) = 0
               THEN Finished([k EXCEPT !.real_path = v.path,
                                       !.original_content = ReadText(v.path)],
                             GetErrorMessage("Error applying diff", path,
                                 Exc("ValueError",
                                     "Invalid patch format: no segment separators '---' found.",
                                     <<>>, 0)))
               ELSE [k EXCEPT !.pc = "apply",
                              !.real_path = v.path,
                              !.original_content = ReadText(v.path),
                              !.segments = Segments(diff_lines),
                              !.new_lines = SplitLines(ReadText(v.path)),
                              !.current_search_start_line = 0,
                              !.warnings = <<>>,
                              !.i = 0]]
    /\ UNCHANGED <<fs, started, _allowed_real_dirs, _virtual_to_real,
                   _real_to_virtual, vres>>

\* one turn of the apply loop: segment number i + 1
ApplySegment(c) ==
    /\ call[c].pc = "apply"
    /\ call[c].i < Len(call[c].segments)
    /\ LET k == call[c]
           segment == k.segments[k.i + 1]
           search_from == SearchFrom(segment, k.current_search_start_line)
           warnings == IF HintIgnored(segment, k.current_search_start_line)
                       THEN Append(k.warnings, Warning(k.i + 1, segment.start_line_gte))
                       ELSE k.warnings
           found_at == FoundAt(k.new_lines, segment, search_from)
       IN  call' = [call EXCEPT ![c] =
               IF found_at = -1
               THEN Finished([k EXCEPT !.search_from = search_from,
                                       !.found_at = found_at,
                                       !.warnings = warnings],
                             GetErrorMessage("Error applying diff", k.path,
                                 Exc("ValueError", "Patch segment could not be applied.",
                                     <<>>, k.i + 1)))
               ELSE [k EXCEPT !.search_from = search_from,
                              !.found_at = found_at,
                              !.warnings = warnings,
                              !.new_lines = Replaced(k.new_lines, segment, found_at),
                              !.current_search_start_line = NextSearchStart(segment, found_at),
                              !.i = k.i + 1]]
    /\ UNCHANGED <<fs, started, _allowed_real_dirs, _virtual_to_real,
                   _real_to_virtual, vres>>

\* the report of a patch that applied: the success sentence, followed, when
\* there are warnings, by "\nWarnings:\n" and the warnings one per line
Report(warnings) == Message("", "Patch applied successfully.", <<>>, warnings)

\* the filesystem after apply_diff went past its dry_run test
Written_IgnoringDryRun(files, dry_run, real_path, new_content) ==
    [files EXCEPT ![Realpath(real_path)] = FileNode(new_content)]

\* the filesystem after apply_diff went past its dry_run test
Written(files, dry_run, real_path, new_content) ==
    IF dry_run THEN files
    ELSE [files EXCEPT ![Realpath(real_path)] = FileNode(new_content)]

\* the end of _apply_simplified_patch and of apply_diff: join the lines,
\* write them unless dry_run, return the report
ApplyDiffCommit(c) ==
    /\ call[c].pc = "apply"
    /\ call[c].i = Len(call[c].segments)
    /\ LET k == call[c]
           new_content == JoinWith(k.new_lines, NL)
       IN  /\ fs' = Written(fs, k.dry_run, k.real_path, new_content)
           /\ call' = [call EXCEPT ![c] =
                  Finished([k EXCEPT !.new_content = new_content],
                           [Report(k.warnings) EXCEPT
                               !.head = IF k.dry_run THEN "Dry run successful. " ELSE ""])]
    /\ UNCHANGED <<started, _allowed_real_dirs, _virtual_to_real, _real_to_virtual, vres>>

\* ------------------------------------------------------------------------
\* Inputs of the patch engine in the bounded model
\* ------------------------------------------------------------------------
\* most segments in one patch
MaxSegs == 2

\* contents of the file /f/n before the call
Contents == {<<"A", NL, "B", NL, "C", NL, "D">>,
             <<"A", NL, "B", NL, "A", NL>>,
             <<"A", CR, NL, "B">>}

HeaderPlain == <<"-", "-", "-", " ", "-", "-", "-">>

\* "--- line >= N ---" for a one-digit N
HeaderWithHint(N) ==
    <<"-", "-", "-", " ">> \o HintText \o <<Digits[N + 1]>> \o <<" ", "-", "-", "-">>

Headers == {HeaderPlain, HeaderWithHint(1), HeaderWithHint(3)}

\* segment bodies: replace B by X and Y, replace A by Z, context A, insert X
Bodies == {<<<<"-", "B">>, <<"+", "X">>, <<"+", "Y">>>>,
           <<<<"-", "A">>, <<"+", "Z">>>>,
           <<<<"A">>>>,
           <<<<"+", "X">>>>}

SegmentTexts == {<<h>> \o b : h \in Headers, b \in Bodies}

RECURSIVE Flatten(_)
Flatten(ss) == IF Len(ss) = 0 THEN <<>> ELSE Head(ss) \o Flatten(Tail(ss))

\* the content as a text-mode read returns it
ReadContents == {UniversalNewlines(content) : content \in Contents}

\* the patch a line differ builds from content a to content b as one segment:
\* every line of a removed, every line of b added
WholeDiff(a, b) ==
    JoinWith(<<HeaderPlain>>
             \o [i \in 1..Len(SplitLines(a)) |-> <<"-">> \o SplitLines(a)[i]]
             \o [i \in 1..Len(SplitLines(b)) |-> <<"+">> \o SplitLines(b)[i]], NL)

\* the patch a line differ builds from content a to itself: context only
ContextDiff(a) == JoinWith(<<HeaderPlain>> \o SplitLines(a), NL)

RoundTripDiffs ==
    {WholeDiff(a, b) : a \in ReadContents, b \in ReadContents}
    \cup {ContextDiff(a) : a \in ReadContents}

\* the segment of the docstring of apply_diff: a removed line, an added line
\* and a context line written with one leading space
DocstringDiff == JoinWith(<<HeaderPlain, <<"-", "A">>, <<"+", "Z">>, <<" ", "B">>>>, NL)

\* a pure insertion whose hint points past the end of every content
PastEndDiff == JoinWith(<<HeaderWithHint(9), <<"+", "X">>>>, NL)

\* file lines to name in a patch body: plain, starting with '-', with '+',
\* with '--'
NamedLines == {<<"A">>, <<"-", "A">>, <<"+", "A">>, <<"-", "-">>}

\* the one-segment patch that removes the line L and adds the line Z
NamingDiff(L) == JoinWith(<<HeaderPlain, <<"-">> \o L, <<"+", "Z">>>>, NL)

\* the one-segment patch that only adds the line L
AddingDiff(L) == JoinWith(<<HeaderPlain, <<"+">> \o L>>, NL)

SpecialDiffs ==
    {DocstringDiff, PastEndDiff}
    \cup {NamingDiff(L) : L \in NamedLines} \cup {AddingDiff(L) : L \in NamedLines}

\* the patches: up to MaxSegs segments one after the other, one patch
\* without any header, the round-trip patches and the special ones
Diffs ==
    {JoinWith(Flatten(q), NL) : q \in {q \in SeqsUpTo(SegmentTexts, MaxSegs) : Len(q) >= 1}}
    \cup {<<"-", "A", NL, "+", "Z">>}
    \cup RoundTripDiffs
    \cup SpecialDiffs

\* a file, a file behind a symlink out of the sandbox, a missing file
PatchPaths == {VirtualDir(0) \o <<"/", "n">>,
               VirtualDir(0) \o <<"/", "s", "/", "n">>,
               VirtualDir(0) \o <<"/", "m">>}

\* ------------------------------------------------------------------------
\* State machine of the patch tool, one call at a time
\* ------------------------------------------------------------------------
InitPatch ==
    /\ \E content \in Contents :
           fs = LayoutOf(LinkNode(P_o), FileNode(content), FileNode(<<"D">>))
    /\ started = TRUE
    /\ _allowed_real_dirs = AllowedRealDirsOf(<<P_f>>)
    /\ _virtual_to_real = VirtualToRealOf(AllowedRealDirsOf(<<P_f>>))
    /\ _real_to_virtual = RealToVirtualOf(VirtualToRealOf(AllowedRealDirsOf(<<P_f>>)))
    /\ vres = NoResult
    /\ call = [c \in Callers |-> IdleCall]

NextPatch ==
    \/ /\ call[1].pc = "idle"
       /\ \E path \in PatchPaths, diff \in Diffs, dry_run \in BOOLEAN :
              ApplyDiffBegin(1, path, diff, dry_run)
    \/ ApplySegment(1)
    \/ ApplyDiffCommit(1)

SpecPatch == InitPatch /\ [][NextPatch]_vars

\* ------------------------------------------------------------------------
\* Two calls of apply_diff on the same file at the same time
\* ------------------------------------------------------------------------
\* the patches of the two calls: edits of different lines, an insertion, a
\* context-only patch, a patch of two segments, a patch that does not apply
ConcDiffs ==
    {JoinWith(<<HeaderPlain>> \o body, NL) : body \in Bodies}
    \cup {JoinWith(<<HeaderPlain, <<"-", "A">>, <<"+", "Z">>,
                     HeaderPlain, <<"-", "C">>, <<"+", "X">>>>, NL),
          NamingDiff(<<"-", "A">>)}

\* the file both calls patch
ConcPath == VirtualDir(0) \o <<"/", "n">>

InitConc ==
    /\ fs = LayoutOf(NoNode, FileNode(<<"A", NL, "B", NL, "C", NL, "D">>), NoNode)
    /\ started = TRUE
    /\ _allowed_real_dirs = AllowedRealDirsOf(<<P_f>>)
    /\ _virtual_to_real = VirtualToRealOf(<<P_f>>)
    /\ _real_to_virtual = RealToVirtualOf(VirtualToRealOf(<<P_f>>))
    /\ vres = NoResult
    /\ call = [c \in Callers |-> IdleCall]

\* no lock is taken between the read (lines 293-294) and the write (lines
\* 301-302): the steps of the two calls interleave freely
NextConc ==
    \E c \in Callers :
        \/ /\ call[c].pc = "idle"
           /\ \E diff \in ConcDiffs, dry_run \in BOOLEAN :
                  ApplyDiffBegin(c, ConcPath, diff, dry_run)
        \/ ApplySegment(c)
        \/ ApplyDiffCommit(c)

SpecConc == InitConc /\ [][NextConc]_vars

\* ------------------------------------------------------------------------
\* Properties of the sandbox
\* ------------------------------------------------------------------------
\* the components of a path
Comps(p) == SelectSeq(SplitOn(p, Sep), LAMBDA c : c # <<>>)

\* p is the directory d or lies below it, component by component
InsideDir(p, d) ==
    LET cp == Comps(p)
        cd == Comps(d)
    IN  Len(cd) <= Len(cp) /\ SubSeq(cp, 1, Len(cd)) = cd

InsideSomeAllowed(p) == \E i \in 1..Len(_allowed_real_dirs) : InsideDir(p, _allowed_real_dirs[i])

\* a call of validate_virtual_path was made and its virtual path matched an alias
Resolved == vres.kind # "none" /\ MatchedItem(vres.vp) # 0

\* the normalised syntactic real path of the call recorded in vres
Candidate == RealPathOf(vres.vp, MatchedItem(vres.vp))

\* some prefix of p, p included, is a symbolic link
ThroughLink(p) ==
    \E n \in 1..Len(Comps(p)) :
        Lstat(<<Sep>> \o JoinWith(SubSeq(Comps(p), 1, n), Sep)).type = "link"

\* C1: validate_virtual_path returns a path only if (a) the path exists and
\* its symlink-resolved form is an allowed directory or a descendant of one,
\* or (b) the path does not exist and the symlink-resolved form of its
\* parent directory is an allowed directory or a descendant of one.
C1_ReturnedOnlyInsideAllowed ==
    vres.kind = "ok" =>
        \/ Exists(vres.path) /\ InsideSomeAllowed(Realpath(vres.path))
        \/ ~Exists(vres.path) /\ InsideSomeAllowed(Realpath(Dirname(vres.path)))

\* a path was returned for a file that does not exist yet, reached through a
\* symlink that validate_virtual_path resolved
C1_Witness ==
    vres.kind = "ok" /\ ~Exists(vres.path) /\ Resolved /\ vres.path # Candidate

\* C2: a virtual path under an alias whose normalised candidate resolves,
\* symlinks followed, to a path outside every allowed directory is refused
\* with PermissionError, whether the target exists or not.
C2_OutsideIsDenied ==
    (Resolved /\ ~InsideSomeAllowed(Realpath(Candidate))) => vres.kind = "PermissionError"

\* refused: the target /fb/n has the only allowed directory /f as a string
\* prefix, without a separator boundary
C2_Witness ==
    /\ Resolved
    /\ _allowed_real_dirs = <<P_f>>
    /\ Realpath(Candidate) = P_fb \o <<Sep, "n">>
    /\ vres.kind = "PermissionError"

\* the directory registered under the alias that the recorded call matched
MatchedDir == _virtual_to_real[MatchedItem(vres.vp)][2]

\* the allowed directories that are neither the matched one nor nested with
\* it, as registered and after symlink resolution
OtherDirs ==
    {d \in {_allowed_real_dirs[i] : i \in 1..Len(_allowed_real_dirs)} :
        /\ ~InsideDir(d, MatchedDir) /\ ~InsideDir(MatchedDir, d)
        /\ ~InsideDir(Realpath(d), Realpath(MatchedDir))
        /\ ~InsideDir(Realpath(MatchedDir), Realpath(d))}

\* C3 as stated: a virtual path under the alias of D1 never resolves to a
\* path inside another allowed directory D2.
C3_Isolation ==
    (Resolved /\ vres.kind = "ok") => \A d \in OtherDirs : ~InsideDir(vres.path, d)

\* C3 amended: a virtual path under the alias of D1 that has no ".."
\* component and whose candidate passes through no symbolic link never
\* resolves to a path inside another allowed directory D2.
C3_IsolationWithoutDotDotOrLinks ==
    (/\ Resolved
     /\ vres.kind = "ok"
     /\ \A i \in 1..Len(Comps(vres.vp)) : Comps(vres.vp)[i] # ParDir
     /\ ~ThroughLink(Candidate))
    => \A d \in OtherDirs : ~InsideDir(vres.path, d)

\* two directories are allowed and a plain path under the first was returned
C3_Witness ==
    /\ Resolved
    /\ vres.kind = "ok"
    /\ OtherDirs # {}
    /\ \A i \in 1..Len(Comps(vres.vp)) : Comps(vres.vp)[i] # ParDir
    /\ ~ThroughLink(Candidate)
    /\ vres.path # MatchedDir

\* C8 as stated: a virtual path naming a file that does not exist, in a
\* parent directory that does not exist either, fails with FileNotFoundError.
C8_ParentNotFound ==
    (Resolved /\ ~Exists(Candidate) /\ ~Exists(Dirname(Candidate)))
    => vres.kind = "FileNotFoundError"

\* C9 as stated: a virtual path naming a file that does not exist, whose
\* parent exists and resolves into an allowed directory, is accepted and the
\* path returned is the syntactic candidate.
C9_ReturnsSyntacticCandidate ==
    (/\ Resolved
     /\ ~Exists(Candidate)
     /\ Exists(Dirname(Candidate))
     /\ InsideSomeAllowed(Realpath(Dirname(Candidate))))
    => (vres.kind = "ok" /\ vres.path = Candidate)

\* C10 as stated: after set_allowed_dirs the i-th directory has the alias
\* /data/<i-th letter>, distinct aliases map to distinct directories and
\* _real_to_virtual is the exact inverse of _virtual_to_real.
C10_AliasBijection ==
    started =>
        /\ Len(_virtual_to_real) = Len(_allowed_real_dirs)
        /\ \A i \in 1..Len(_virtual_to_real) :
               _virtual_to_real[i] = <<VirtualDir(i - 1), _allowed_real_dirs[i]>>
        /\ \A i, j \in 1..Len(_virtual_to_real) :
               i # j => _virtual_to_real[i][2] # _virtual_to_real[j][2]
        /\ \A i \in 1..Len(_virtual_to_real) :
               /\ DictHas(_real_to_virtual, _virtual_to_real[i][2])
               /\ DictGet(_real_to_virtual, _virtual_to_real[i][2]) = _virtual_to_real[i][1]
        /\ \A i \in 1..Len(_real_to_virtual) :
               /\ DictHas(_virtual_to_real, _real_to_virtual[i][2])
               /\ DictGet(_virtual_to_real, _real_to_virtual[i][2]) = _real_to_virtual[i][1]

\* ------------------------------------------------------------------------
\* Properties of the patch engine
\* ------------------------------------------------------------------------
Min(S) == CHOOSE m \in S : \A o \in S : m <= o

\* the indices m >= s at which the lines m .. m+len(from)-1 equal from
Windows(lines, from, s) ==
    {m \in s..(Len(lines) - Len(from)) : \A j \in 1..Len(from) : lines[m + j] = from[j]}

\* lines with the n lines from index m on replaced by to
Spliced(lines, m, n, to) ==
    LET at == IF m > Len(lines) THEN Len(lines) ELSE m
    IN  SubSeq(lines, 1, at) \o to \o SubSeq(lines, at + n + 1, Len(lines))

\* the patch applied segment by segment as the design describes it: whether
\* every segment applied, and the lines after the last one
RECURSIVE PatchOutcome(_, _, _)
PatchOutcome(lines, cursor, segs) ==
    IF Len(segs) = 0 THEN [applied |-> TRUE, lines |-> lines]
    ELSE LET seg == Head(segs)
             N == seg.start_line_gte
             s == IF N # None /\ N - 1 >= cursor THEN N - 1 ELSE cursor
             W == Windows(lines, seg.from_lines, s)
         IN  IF seg.from_lines = <<>>
             THEN PatchOutcome(Spliced(lines, s, 0, seg.to_lines),
                               s + Len(seg.to_lines), Tail(segs))
             ELSE IF W = {} THEN [applied |-> FALSE, lines |-> lines]
             ELSE PatchOutcome(Spliced(lines, Min(W), Len(seg.from_lines), seg.to_lines),
                               Min(W) + Len(seg.to_lines), Tail(segs))

\* the outcome of the whole patch of caller c on the content it read
OutcomeOf(c) == PatchOutcome(SplitLines(call[c].original_content), 0, call[c].segments)

\* this step ends the call of c by writing the fully patched content
FullCommit(c) ==
    /\ call[c].pc = "apply"
    /\ call'[c].pc = "done"
    /\ ~call[c].dry_run
    /\ OutcomeOf(c).applied
    /\ fs' = [fs EXCEPT ![call[c].real_path] = FileNode(JoinWith(OutcomeOf(c).lines, NL))]

\* C4: apply_diff never partially commits. The filesystem changes only in
\* the step that ends a call whose every segment applied and whose dry_run
\* is false, and then the file holds exactly the result of all segments;
\* a call that fails or runs dry leaves the content as it was, and a call
\* that reports success without dry_run has written that result.
C4_NoPartialCommit ==
    [][/\ fs' # fs => \E c \in Callers : FullCommit(c)
       /\ \A c \in Callers :
              (/\ call[c].pc = "apply"
               /\ call'[c].pc = "done"
               /\ call'[c].result.detail = "Patch applied successfully."
               /\ ~call[c].dry_run) => FullCommit(c)]_vars

\* the first segment was applied in memory, the second could not be located,
\* and the file still holds what was read
C4_Witness ==
    /\ call[1].pc = "done"
    /\ ~call[1].dry_run
    /\ call[1].i = 1
    /\ call[1].found_at = -1
    /\ call[1].new_lines # SplitLines(call[1].original_content)
    /\ UniversalNewlines(Lstat(call[1].real_path).data) = call[1].original_content

\* this step is one turn of the apply loop of caller c
SegmentTurn(c) ==
    /\ call[c].pc = "apply"
    /\ call[c].i < Len(call[c].segments)
    /\ call'[c] # call[c]

\* the segment that the next turn of the loop of caller c handles
SegmentOf(c) == call[c].segments[call[c].i + 1]

\* C5: a segment with a non-empty from sequence is applied at the smallest
\* index m >= search start whose window of len(from) lines equals from;
\* exactly that window is replaced by to, the lines outside it keep content
\* and order, the cursor becomes m + len(to); without such a window the
\* call fails.
C5_FirstMatchReplaced ==
    [][\A c \in Callers :
          (SegmentTurn(c) /\ SegmentOf(c).from_lines # <<>>) =>
              LET seg == SegmentOf(c)
                  W == Windows(call[c].new_lines, seg.from_lines, call'[c].search_from)
              IN  IF W = {}
                  THEN /\ call'[c].pc = "done"
                       /\ call'[c].result.head = "Error applying diff"
                       /\ call'[c].new_lines = call[c].new_lines
                  ELSE /\ call'[c].pc = "apply"
                       /\ call'[c].found_at = Min(W)
                       /\ call'[c].new_lines =
                              Spliced(call[c].new_lines, Min(W), Len(seg.from_lines), seg.to_lines)
                       /\ call'[c].current_search_start_line = Min(W) + Len(seg.to_lines)]_vars

\* original [A,B,C,D], one segment from=[B] to=[X,Y] without hint: the
\* lines are [A,X,Y,C,D] and the cursor is 3
C5_Witness ==
    /\ call[1].pc = "apply"
    /\ SplitLines(call[1].original_content) = <<<<"A">>, <<"B">>, <<"C">>, <<"D">>>>
    /\ call[1].segments = <<[start_line_gte |-> None,
                             from_lines |-> <<<<"B">>>>,
                             to_lines |-> <<<<"X">>, <<"Y">>>>]>>
    /\ call[1].i = 1
    /\ call[1].new_lines = <<<<"A">>, <<"X">>, <<"Y">>, <<"C">>, <<"D">>>>
    /\ call[1].current_search_start_line = 3

\* content [A,B,C,D], first segment from=[A] to=[Z], second segment
\* from=[A] without hint: the call ended in the second segment's failure
C6_Scenario ==
    /\ call[1].pc = "done"
    /\ Len(call[1].segments) = 2
    /\ call[1].segments[1] = [start_line_gte |-> None, from_lines |-> <<<<"A">>>>,
                              to_lines |-> <<<<"Z">>>>]
    /\ call[1].segments[2].start_line_gte = None
    /\ call[1].segments[2].from_lines = <<<<"A">>>>
    /\ SplitLines(call[1].original_content) = <<<<"A">>, <<"B">>, <<"C">>, <<"D">>>>

\* C6: the search never rewinds. Every segment is searched from an index >=
\* the cursor the previous segment left and applied at such an index, the
\* cursor never decreases, and the lines below the cursor are not changed by
\* a later segment. In the two-segment scenario (A to Z, then A again) the
\* call fails.
C6_NeverRewinds ==
    [][/\ \A c \in Callers :
              SegmentTurn(c) =>
                  /\ call'[c].search_from >= call[c].current_search_start_line
                  /\ call'[c].current_search_start_line >= call[c].current_search_start_line
                  /\ call'[c].pc = "apply" =>
                         /\ call'[c].found_at >= call[c].current_search_start_line
                         /\ \A j \in 1..call[c].current_search_start_line :
                                j <= Len(call[c].new_lines) =>
                                    /\ j <= Len(call'[c].new_lines)
                                    /\ call'[c].new_lines[j] = call[c].new_lines[j]
       /\ C6_Scenario' =>
              /\ call'[1].result.head = "Error applying diff"
              /\ call'[1].i = 1
              /\ call'[1].found_at = -1]_vars

\* the two-segment scenario was run and failed in its second segment
C6_Witness == C6_Scenario /\ call[1].found_at = -1 /\ call[1].i = 1

\* C7: a hint 'line >= N' met at cursor c with N >= c+1 starts the search at
\* N-1 and records no warning; with N < c+1 it is ignored, the search
\* starts at c and exactly one warning naming the segment is recorded,
\* which by itself does not fail the call; without a hint the search starts
\* at c. The report of a successful call lists exactly the recorded
\* warnings, in segment order.
C7_HintHandling ==
    [][\A c \in Callers :
          /\ SegmentTurn(c) =>
                 LET N == SegmentOf(c).start_line_gte
                     cur == call[c].current_search_start_line
                 IN  /\ (N # None /\ N >= cur + 1) =>
                            /\ call'[c].search_from = N - 1
                            /\ call'[c].warnings = call[c].warnings
                     /\ (N # None /\ N < cur + 1) =>
                            /\ call'[c].search_from = cur
                            /\ call'[c].warnings =
                                   Append(call[c].warnings, [segment |-> call[c].i + 1, line |-> N])
                            /\ (Windows(call[c].new_lines, SegmentOf(c).from_lines, cur) # {}
                                \/ SegmentOf(c).from_lines = <<>>) => call'[c].pc = "apply"
                     /\ N = None =>
                            /\ call'[c].search_from = cur
                            /\ call'[c].warnings = call[c].warnings
          /\ (call[c].pc = "apply" /\ call'[c].pc = "done"
              /\ call'[c].result.detail = "Patch applied successfully.") =>
                 call'[c].result.warnings = call[c].warnings]_vars

\* 'line >= 1' met with the cursor at 3: ignored with one warning, the
\* search started at 3
C7_Witness ==
    /\ Len(call[1].segments) = 2
    /\ call[1].segments[2].start_line_gte = 1
    /\ call[1].i = 2
    /\ call[1].search_from = 3
    /\ call[1].warnings = <<[segment |-> 2, line |-> 1]>>
    /\ call[1].pc = "done"
    /\ call[1].result.warnings = <<[segment |-> 2, line |-> 1]>>

\* ------------------------------------------------------------------------
\* Properties of the results of apply_diff
\* ------------------------------------------------------------------------
\* what apply_diff returns for a patch without any header line on this path
FormatErrorResult(path) ==
    GetErrorMessage("Error applying diff", path,
                    Exc("ValueError",
                        "Invalid patch format: no segment separators '---' found.",
                        <<>>, 0))

\* the call of caller c ended because a segment could not be located
ApplyFailed(c) ==
    call[c].pc = "done" /\ call[c].found_at = -1 /\ Len(call[c].segments) > 0

\* C11 as stated: the result of a call whose k-th segment cannot be located
\* is distinguishable from the result of a call with a header-less patch on
\* the same path.
C11_FailuresDistinct ==
    ApplyFailed(1) => call[1].result # FormatErrorResult(call[1].path)

\* the patch is the one-segment diff from the content read to some content b,
\* or the context-only diff of the content read
RoundTripTarget(c, b) ==
    \/ call[c].diff = WholeDiff(call[c].original_content, b)
    \/ b = call[c].original_content /\ call[c].diff = ContextDiff(b)

\* C12 as stated: applying to A the patch built by diffing A against B
\* returns new_content equal to B as a string, final line terminator included.
C12_RoundTrip ==
    \A b \in ReadContents :
        (/\ call[1].pc = "done"
         /\ call[1].result.detail = "Patch applied successfully."
         /\ RoundTripTarget(1, b)) => call[1].new_content = b

\* ------------------------------------------------------------------------
\* Properties of the parsing of a patch
\* ------------------------------------------------------------------------
\* the patch of caller c was parsed into segments
Parsed(c) == call[c].pc \in {"apply", "done"} /\ Len(call[c].segments) > 0

\* the lines of the patch text of caller c
PatchLines(c) == SplitOn(Strip(call[c].diff), NL)

IsHeaderLine(line) == Len(line) >= 3 /\ line[1] = "-" /\ line[2] = "-" /\ line[3] = "-"

\* the positions of the header lines
HeaderPositions(lines) == {p \in 1..Len(lines) : IsHeaderLine(lines[p])}

\* the position of the n-th header line
HeaderPosition(lines, n) ==
    CHOOSE p \in HeaderPositions(lines) :
        Cardinality({q \in HeaderPositions(lines) : q < p}) = n - 1

\* the lines after the n-th header line up to the next header line
BodyOf(lines, n) ==
    LET p == HeaderPosition(lines, n)
        later == {q \in HeaderPositions(lines) : q > p} \cup {Len(lines) + 1}
        next == CHOOSE q \in later : \A r \in later : q <= r
    IN  SubSeq(lines, p + 1, next - 1)

Marked(line, mark) == Len(line) >= 1 /\ line[1] = mark

\* a body line without its marker
Unmarked(line) == IF Marked(line, "-") \/ Marked(line, "+") THEN Tail(line) ELSE line

\* the lines of the body that do not carry the mark, in order, markers removed
SideOf(body, mark) ==
    LET kept == SelectSeq(body, LAMBDA line : ~Marked(line, mark))
    IN  [n \in 1..Len(kept) |-> Unmarked(kept[n])]

\* C13: a parsed patch has one segment per header line; the from_lines of the
\* n-th segment are the '-' lines (marker removed) and the other unmarked lines
\* of the body after the n-th header, its to_lines the '+' lines (marker
\* removed) and the unmarked lines, both in the order of the body.
C13_SegmentsFromBodies ==
    Parsed(1) =>
        /\ Len(call[1].segments) = Cardinality(HeaderPositions(PatchLines(1)))
        /\ \A n \in 1..Len(call[1].segments) :
              /\ call[1].segments[n].from_lines = SideOf(BodyOf(PatchLines(1), n), "+")
              /\ call[1].segments[n].to_lines = SideOf(BodyOf(PatchLines(1), n), "-")

\* a patch of two segments was parsed: one with removed and added lines, one
\* with a context line
C13_Witness ==
    /\ Parsed(1)
    /\ Len(call[1].segments) = 2
    /\ call[1].segments[1].from_lines = <<<<"B">>>>
    /\ call[1].segments[1].to_lines = <<<<"X">>, <<"Y">>>>
    /\ call[1].segments[2].from_lines = <<<<"A">>>>
    /\ call[1].segments[2].to_lines = <<<<"A">>>>

\* C14 as stated: a context line may be written with one leading space; the
\* segment of the docstring ('-old', '+new', ' context') applies to a file
\* whose first lines are 'old', 'context'.
C14_SpaceContextApplies ==
    (/\ call[1].pc = "done"
     /\ call[1].diff = DocstringDiff
     /\ Len(SplitLines(call[1].original_content)) >= 2
     /\ SubSeq(SplitLines(call[1].original_content), 1, 2) = <<<<"A">>, <<"B">>>>)
    => call[1].result.detail = "Patch applied successfully."

\* ------------------------------------------------------------------------
\* Properties of concurrent calls
\* ------------------------------------------------------------------------
\* the content of the file both calls patch
SharedContent == Lstat(P_f_n).data

\* the call of c wrote its output
Wrote(c) ==
    /\ call[c].pc = "done"
    /\ ~call[c].dry_run
    /\ call[c].result.detail = "Patch applied successfully."

InsertedLast(c) ==
    /\ call[c].pc \in {"apply", "done"}
    /\ call[c].i >= 1
    /\ call[c].found_at # -1
    /\ call[c].segments[call[c].i].from_lines = <<>>

\* C16 as stated: after a pure insertion the to_lines occupy the indices
\* s .. s + len(to) - 1 of the working copy, s being the search start, the
\* cursor is s + len(to), and 0 <= cursor <= number of lines.
C16_InsertionAtSearchStart ==
    InsertedLast(1) =>
        LET k == call[1]
            to == k.segments[k.i].to_lines
            s == k.search_from
        IN  /\ k.found_at = s
            /\ k.current_search_start_line = s + Len(to)
            /\ 0 <= k.current_search_start_line
            /\ k.current_search_start_line <= Len(k.new_lines)
            /\ \A n \in 1..Len(to) : k.new_lines[s + n] = to[n]

\* ------------------------------------------------------------------------
\* Properties of naming file lines in a patch body
\* ------------------------------------------------------------------------
\* C17 as stated: every file line L can be named in a patch body. The body
\* line '-' + L contributes exactly L to from_lines and '+' + L exactly L to
\* to_lines, also when L begins with '--', '-' or '+'; such a body line starts
\* no new segment and the body lines after it stay in its segment.
C17_EveryLineCanBeNamed ==
    \A L \in NamedLines :
        /\ (Parsed(1) /\ call[1].diff = NamingDiff(L))
           => call[1].segments = <<[start_line_gte |-> None,
                                    from_lines |-> <<L>>,
                                    to_lines |-> <<<<"Z">>>>]>>
        /\ (Parsed(1) /\ call[1].diff = AddingDiff(L))
           => call[1].segments = <<[start_line_gte |-> None,
                                    from_lines |-> <<>>,
                                    to_lines |-> <<L>>]>>

\* ------------------------------------------------------------------------
\* Properties of the registered aliases
\* ------------------------------------------------------------------------
\* the alias the call recorded in vres matched
MatchedAlias == _virtual_to_real[MatchedItem(vres.vp)][1]

\* the entry n directly inside the matched directory is a regular file
RegularFileInside == Lstat(Realpath(MatchedDir) \o <<"/", "n">>).type = "file"

\* C18 as stated: every registered alias is usable. validate_virtual_path
\* succeeds on the alias itself and on an existing regular file directly
\* inside it, also when the allowed directory as registered is a symlink.
C18_AliasUsable ==
    Resolved =>
        /\ vres.vp = MatchedAlias => vres.kind = "ok"
        /\ (vres.vp = MatchedAlias \o <<"/", "n">> /\ RegularFileInside)
           => vres.kind = "ok"

====
